---------------------------- MODULE Spec2Model ----------------------------
(***************************************************************************)
(* Model of appsimple.py (Lambertz Bayesian calculator).                   *)
(*                                                                         *)
(* Numbers.  The program computes with Python floats.  The model computes  *)
(* with exact rationals whose numerator and denominator are unbounded      *)
(* naturals (sequences of base-10000 limbs, least significant first), so   *)
(* 1e-8 and products of such values are represented exactly.  Rounding of  *)
(* a float to 53 bits is outside the model.                                *)
(***************************************************************************)
EXTENDS Integers, Sequences, FiniteSets, TLC

(***************************************************************************)
(* Unbounded naturals.                                                     *)
(***************************************************************************)
Base == 100 * 100

RECURSIVE BigOf(_)
BigOf(k) == IF k = 0 THEN <<>> ELSE <<k % Base>> \o BigOf(k \div Base)

RECURSIVE BAddC(_, _, _)
BAddC(a, b, c) ==
  IF a = <<>> /\ b = <<>>
  THEN (IF c = 0 THEN <<>> ELSE <<c>>)
  ELSE LET x == IF a = <<>> THEN 0 ELSE a[1]
           y == IF b = <<>> THEN 0 ELSE b[1]
           s == x + y + c
       IN <<s % Base>> \o BAddC(IF a = <<>> THEN <<>> ELSE Tail(a),
                                IF b = <<>> THEN <<>> ELSE Tail(b),
                                s \div Base)

BAdd(a, b) == BAddC(a, b, 0)

RECURSIVE BStrip(_)
BStrip(a) ==
  IF a = <<>> THEN <<>>
  ELSE IF a[Len(a)] = 0 THEN BStrip(SubSeq(a, 1, Len(a) - 1)) ELSE a

\* a - b for a >= b, before stripping of leading zero limbs
RECURSIVE BSubC(_, _, _)
BSubC(a, b, c) ==
  IF a = <<>> THEN <<>>
  ELSE LET y == IF b = <<>> THEN 0 ELSE b[1]
           s == a[1] - y - c
       IN <<IF s < 0 THEN s + Base ELSE s>>
          \o BSubC(Tail(a), IF b = <<>> THEN <<>> ELSE Tail(b),
                   IF s < 0 THEN 1 ELSE 0)

BSub(a, b) == BStrip(BSubC(a, b, 0))

RECURSIVE BMulLimb(_, _, _)
BMulLimb(a, m, c) ==
  IF a = <<>>
  THEN (IF c = 0 THEN <<>> ELSE <<c>>)
  ELSE LET s == a[1] * m + c
       IN <<s % Base>> \o BMulLimb(Tail(a), m, s \div Base)

BShift(a) == IF a = <<>> THEN <<>> ELSE <<0>> \o a

RECURSIVE BMul(_, _)
BMul(a, b) ==
  IF a = <<>> \/ b = <<>> THEN <<>>
  ELSE BAdd(IF b[1] = 0 THEN <<>> ELSE BMulLimb(a, b[1], 0),
            BShift(BMul(a, Tail(b))))

\* -1, 0, 1 as a < b, a = b, a > b, comparing from limb i downwards
RECURSIVE BCmpAt(_, _, _)
BCmpAt(a, b, i) ==
  IF i = 0 THEN 0
  ELSE IF a[i] < b[i] THEN -1
  ELSE IF a[i] > b[i] THEN 1
  ELSE BCmpAt(a, b, i - 1)

BCmp(a, b) ==
  IF Len(a) < Len(b) THEN -1
  ELSE IF Len(a) > Len(b) THEN 1
  ELSE BCmpAt(a, b, Len(a))

\* a * 10^k for k >= 0
RECURSIVE BScale10(_, _)
BScale10(a, k) ==
  IF k = 0 THEN a
  ELSE IF k >= 4 THEN BShift(BScale10(a, k - 4))
  ELSE BScale10(BMulLimb(a, 10, 0), k - 1)

(***************************************************************************)
(* Exact rationals: the value of [s, n, d, e] is s * (n / d) * 10^e, with  *)
(* s the sign (-1, 0, 1), n the magnitude of the numerator (<<>> exactly   *)
(* when s = 0), d the positive denominator and e a decimal exponent, so    *)
(* that a decimal number such as 1e-8 has denominator 1.  RMk moves the    *)
(* factors 2, 5 and 10 of a one-limb denominator (and whole zero limbs of  *)
(* a longer one) into the exponent, which changes no value.  Fractions are *)
(* not reduced otherwise; equality of values is REq.                       *)
(***************************************************************************)
RECURSIVE RMk(_, _, _, _)
RMk(s, n, d, e) ==
  IF n = <<>> THEN [s |-> 0, n |-> <<>>, d |-> <<1>>, e |-> 0]
  ELSE IF Len(d) > 1 /\ d[1] = 0 THEN RMk(s, n, Tail(d), e - 4)
  ELSE IF Len(d) = 1 /\ d[1] % 10 = 0 THEN RMk(s, n, <<d[1] \div 10>>, e - 1)
  ELSE IF Len(d) = 1 /\ d[1] % 2 = 0
       THEN RMk(s, BMulLimb(n, 5, 0), <<d[1] \div 2>>, e - 1)
  ELSE IF Len(d) = 1 /\ d[1] % 5 = 0
       THEN RMk(s, BMulLimb(n, 2, 0), <<d[1] \div 5>>, e - 1)
  ELSE [s |-> s, n |-> n, d |-> d, e |-> e]

\* the rational p/q for integers p and q > 0
R(p, q) == IF p < 0 THEN RMk(-1, BigOf(-p), BigOf(q), 0)
           ELSE RMk(1, BigOf(p), BigOf(q), 0)

RNeg(x) == [x EXCEPT !.s = -x.s]

\* sum of signed magnitudes over one denominator and one exponent
RSum(sa, na, sb, nb, d, e) ==
  IF sa = 0 THEN RMk(sb, nb, d, e)
  ELSE IF sb = 0 THEN RMk(sa, na, d, e)
  ELSE IF sa = sb THEN RMk(sa, BAdd(na, nb), d, e)
  ELSE IF BCmp(na, nb) >= 0 THEN RMk(sa, BSub(na, nb), d, e)
  ELSE RMk(sb, BSub(nb, na), d, e)

Min(a, b) == IF a < b THEN a ELSE b

\* the numerator of x when its exponent is lowered to e
RAlign(x, e) == BScale10(x.n, x.e - e)

RAddAt(x, y, e) ==
  IF x.d = y.d THEN RSum(x.s, RAlign(x, e), y.s, RAlign(y, e), x.d, e)
  ELSE RSum(x.s, BMul(RAlign(x, e), y.d), y.s, BMul(RAlign(y, e), x.d),
            BMul(x.d, y.d), e)

RAdd(x, y) == RAddAt(x, y, Min(x.e, y.e))

RSub(x, y) == RAdd(x, RNeg(y))

RMul(x, y) == RMk(x.s * y.s, BMul(x.n, y.n), BMul(x.d, y.d), x.e + y.e)

\* x / y for y # 0
RDiv(x, y) ==
  IF x.d = y.d THEN RMk(x.s * y.s, x.n, y.n, x.e - y.e)
  ELSE RMk(x.s * y.s, BMul(x.n, y.d), BMul(x.d, y.n), x.e - y.e)

\* -1, 0, 1 as x < y, x = y, x > y
RCmpAt(x, y, e) ==
  IF x.d = y.d THEN BCmp(RAlign(x, e), RAlign(y, e))
  ELSE BCmp(BMul(RAlign(x, e), y.d), BMul(RAlign(y, e), x.d))

RCmp(x, y) ==
  IF x.s # y.s THEN (IF x.s < y.s THEN -1 ELSE 1)
  ELSE IF x.s = 0 THEN 0
  ELSE x.s * RCmpAt(x, y, Min(x.e, y.e))

REq(x, y) == RCmp(x, y) = 0
RLt(x, y) == RCmp(x, y) < 0
RLe(x, y) == RCmp(x, y) <= 0
RIsZero(x) == x.s = 0

\* Python's max(a, b) and min(a, b): the first argument unless the second wins
RMax(a, b) == IF RLt(a, b) THEN b ELSE a
RMin(a, b) == IF RLt(b, a) THEN b ELSE a

(***************************************************************************)
(* Constants and pure functions of the program.                            *)
(***************************************************************************)
Zero == R(0, 1)
One == R(1, 1)
Hundred == R(100, 1)

EPS_PCT == R(1, 1000000)
EPS == RDiv(EPS_PCT, Hundred)
ONE_MINUS_EPS == RSub(One, EPS)

\* clamp_prob with min and max exchanged
clamp_prob_swapped(p) == RMin(EPS, RMax(ONE_MINUS_EPS, p))

clamp_prob(p) == RMax(EPS, RMin(ONE_MINUS_EPS, p))

lr_category(lr) ==
  IF RLt(lr, R(1, 1000)) THEN "Extremely strong support for innocence"
  ELSE IF RLt(lr, R(1, 100)) THEN "Very strong support for innocence"
  ELSE IF RLt(lr, R(1, 10)) THEN "Strong support for innocence"
  ELSE IF RLt(lr, R(33, 100)) THEN "Moderate support for innocence"
  ELSE IF RLt(lr, One) THEN "Limited (weak) support for innocence"
  ELSE IF REq(lr, One) THEN "Neutral"
  ELSE IF RLe(lr, R(3, 1)) THEN "Limited (weak) support for guilt"
  ELSE IF RLe(lr, R(10, 1)) THEN "Moderate support for guilt"
  ELSE IF RLe(lr, R(30, 1)) THEN "Strong support for guilt"
  ELSE IF RLe(lr, Hundred) THEN "Very strong support for guilt"
  ELSE "Extremely strong support for guilt"

LR_MIN == R(1, 1000000)
LR_MAX == R(1000000, 1)

\* line 77
lr_clamp(lr) == RMax(LR_MIN, RMin(LR_MAX, lr))
\* line 78
lr_lower(lr) == RMax(EPS, RDiv(EPS, lr))
\* lr_upper without the division by lr
lr_upper_undivided(lr) == ONE_MINUS_EPS

\* lines 79-82
lr_upper(lr) ==
  IF RLe(One, lr) THEN RMin(ONE_MINUS_EPS, RDiv(ONE_MINUS_EPS, lr))
  ELSE ONE_MINUS_EPS
\* lines 83-86
lr_pbna(lower, upper) ==
  IF RLt(upper, lower) THEN R(1, 2) ELSE RDiv(RAdd(lower, upper), R(2, 1))
\* line 87, as the pair <<pba, pbna>>
lr_pba_pbna(lr, pbna) == <<RMul(lr, pbna), pbna>>

lr_to_prob_clamped(lr) == lr_pba_pbna(lr, lr_pbna(lr_lower(lr), lr_upper(lr)))

\* lines 77-87: the pair <<pba, pbna>> before the final clamp_prob calls
lr_to_prob_raw(lr) == lr_to_prob_clamped(lr_clamp(lr))

\* line 88
clamp_pair(pair) == <<clamp_prob(pair[1]), clamp_prob(pair[2])>>

\* <<pba, pbna>> = (P(B|guilt), P(B|innocence))
lr_to_prob_pair(lr) == clamp_pair(lr_to_prob_raw(lr))

\* line 362
bayes_denominator(numerator, prior, pbna) ==
  RAdd(numerator, RMul(pbna, RSub(One, prior)))

\* line 363
bayes_quotient(numerator, denominator) ==
  IF ~RIsZero(denominator) THEN RDiv(numerator, denominator) ELSE Zero

bayes_from(numerator, prior, pbna) ==
  bayes_quotient(numerator, bayes_denominator(numerator, prior, pbna))

\* bayes_step with the two likelihoods exchanged
bayes_step_swapped(prior, pba, pbna) ==
  bayes_from(RMul(pbna, prior), prior, pba)

bayes_step(prior, pba, pbna) == bayes_from(RMul(pba, prior), prior, pbna)

\* interpret with the ">= 50" test placed before the ">= 60" test
interpret_reordered(pct) ==
  IF RLe(R(95, 1), pct) THEN "Bortom rimligt tvivel"
  ELSE IF RLe(R(80, 1), pct) THEN "Starkt stöd för skuld"
  ELSE IF RLe(R(50, 1), pct) THEN "Bevisövervikt"
  ELSE IF RLe(R(60, 1), pct) THEN "Huvudsakligen styrkt"
  ELSE IF RLe(R(30, 1), pct) THEN "Tveksamt"
  ELSE "Osannolikt eller stöd för oskuld"

interpret(pct) ==
  IF RLe(R(95, 1), pct) THEN "Bortom rimligt tvivel"
  ELSE IF RLe(R(80, 1), pct) THEN "Starkt stöd för skuld"
  ELSE IF RLe(R(60, 1), pct) THEN "Huvudsakligen styrkt"
  ELSE IF RLe(R(50, 1), pct) THEN "Bevisövervikt"
  ELSE IF RLe(R(30, 1), pct) THEN "Tveksamt"
  ELSE "Osannolikt eller stöd för oskuld"

(***************************************************************************)
(* Scenario data.  An evidence row is [desc, pba, pbna].                   *)
(***************************************************************************)
Row(desc, pba, pbna) == [desc |-> desc, pba |-> pba, pbna |-> pbna]

EGET == "Skapa eget scenario"

MALLAR ==
  [m \in {"Årsta torg", "Busshållsplatsen"} |->
     IF m = "Årsta torg"
     THEN << Row("Vittnesmål 1 (A. E)", R(95, 100), R(5, 100)),
             Row("Vittnesmål 2 (M. L)", R(95, 100), R(5, 100)),
             Row("Vittnesmål 3 (N. E)", R(7, 10), R(5, 10)),
             Row("DNA", R(95, 100), R(1, 100)),
             Row("Jacka (saknas)", R(25, 100), R(5, 10)),
             Row("Annat", R(25, 100), R(6, 10)) >>
     ELSE << Row("Vittnesmål 1", R(7, 10), R(2, 10)),
             Row("Vittnesmål 2", R(7, 10), R(1, 10)),
             Row("Vittnesmål 3", R(7, 10), R(15, 100)),
             Row("DNA", R(6, 10), R(2, 100)),
             Row("Kamera", R(95, 100), R(3, 10)) >>]

MOTBEVIS_MALLAR ==
  [m \in {"Årsta torg", "Busshållsplatsen"} |->
     IF m = "Årsta torg"
     THEN << Row("Alibiuppgift", R(3, 10), R(6, 10)),
             Row("Motvittne", R(5, 10), R(9, 10)) >>
     ELSE << Row("Tidsuppgift avviker", R(4, 10), R(7, 10)) >>]

Mallnamn == {EGET} \cup DOMAIN MALLAR

(***************************************************************************)
(* CSV files.  A file is [header, rows]; a row is a record of cells typ,   *)
(* desc, pba, pbna, prior.  Text cells hold the text written in the file;  *)
(* numeric cells hold the number (a float is written with its shortest     *)
(* round-trip form and read back as the same float).                       *)
(***************************************************************************)
NoFile == [header |-> FALSE, rows |-> <<>>, none |-> TRUE]
File(header, rows) == [header |-> header, rows |-> rows, none |-> FALSE]

Cell(typ, desc, pba, pbna, prior) ==
  [typ |-> typ, desc |-> desc, pba |-> pba, pbna |-> pbna, prior |-> prior]

\* pandas.DataFrame(rows).to_csv(index=False): no rows give no columns, so not
\* even a header line; a text cell is written as it is
to_csv(rows) == File(rows # <<>>, rows)

\* text that pandas.read_csv reads as a missing value (NaN), among them the
\* empty cell
NaTexts == {"", "NA", "N/A", "NULL", "NaN", "nan", "null", "None"}
NaNDesc == "float('nan')"

\* the value read_csv gives for the text of a desc cell
read_desc(text) == IF text \in NaTexts THEN NaNDesc ELSE text

\* the text a widget shows for a row's description: str(value)
str_desc(desc) == IF desc = NaNDesc THEN "nan" ELSE desc

RECURSIVE RowsOfTyp(_, _)
\* df[df['typ'] == typ][['desc', 'pba', 'pbna']].to_dict("records")
RowsOfTyp(rows, typ) ==
  IF rows = <<>> THEN <<>>
  ELSE (IF rows[1].typ = typ
        THEN <<Row(read_desc(rows[1].desc), rows[1].pba, rows[1].pbna)>>
        ELSE <<>>) \o RowsOfTyp(Tail(rows), typ)

RECURSIVE CellsOf(_, _, _)
\* [{"typ": typ, "desc": r["desc"], "pba": ..., "pbna": ..., "prior": prior} for r in data]
CellsOf(data, typ, prior) ==
  IF data = <<>> THEN <<>>
  ELSE <<Cell(typ, data[1].desc, data[1].pba, data[1].pbna, prior)>>
       \o CellsOf(Tail(data), typ, prior)

(***************************************************************************)
(* The update loop.                                                        *)
(***************************************************************************)
RECURSIVE LoopRows(_, _, _)
\* the row appended for data[1], and the rows of the rest of the pass
LoopAppend(old_post, post, data, prefix) ==
  <<[Bevis |-> prefix \o data[1].desc,
     pba |-> data[1].pba, pbna |-> data[1].pbna,
     old_post |-> old_post, posterior |-> post]>>
  \o LoopRows(post, Tail(data), prefix)

\* one pass "for row in data": the rows appended to result_tab, starting
\* from posterior post; prefix is put before the description.  The program
\* stores the four numbers rendered as percentages with two decimals; the
\* model keeps the numbers.
LoopRows(post, data, prefix) ==
  IF data = <<>> THEN <<>>
  ELSE LoopAppend(post, bayes_step(post, data[1].pba, data[1].pbna),
                  data, prefix)

LastPosterior(prior, tab) ==
  IF tab = <<>> THEN prior ELSE tab[Len(tab)].posterior

\* lines 365-386: result_tab for a prior, the evidence and the counter-evidence
SecondLoop(prior, first, motbevis) ==
  first \o LoopRows(LastPosterior(prior, first), motbevis, "Motbevis: ")

\* UpdateLoop whose second loop starts again from the prior
UpdateLoop_restart(prior, bevis, motbevis) ==
  LoopRows(prior, bevis, "") \o LoopRows(prior, motbevis, "Motbevis: ")

UpdateLoop(prior, bevis, motbevis) ==
  SecondLoop(prior, LoopRows(prior, bevis, ""), motbevis)

(***************************************************************************)
(* Bounds of the model and the inputs it draws.                            *)
(***************************************************************************)
\* largest "Antal bevis" entered (the field allows 1..20)
MaxBevis == 2
\* largest "Antal motbevis" entered (the field allows 0..10)
MaxMotbevis == 1
\* number of widgets the user changes from their default in one behaviour
MaxEdits == 1

\* what the user does with the widgets of one row: desc_edit with the text
\* typed, use_scale with the slider position lr_log, pct_edit with the two
\* percent fields; without pct_edit the percent fields keep their defaults
Input(desc_edit, desc, use_scale, lr_log, pct_edit, pba_pct, pbna_pct) ==
  [desc_edit |-> desc_edit, desc |-> desc, use_scale |-> use_scale,
   lr_log |-> lr_log, pct_edit |-> pct_edit,
   pba_pct |-> pba_pct, pbna_pct |-> pbna_pct]

NoEdit == Input(FALSE, "", FALSE, 0, FALSE, Zero, Zero)

RowEdits ==
  { Input(FALSE, "", FALSE, 0, TRUE, R(95, 1), R(5, 1)),
    Input(FALSE, "", FALSE, 0, TRUE, Zero, Hundred),
    Input(FALSE, "", TRUE, -6, FALSE, Zero, Zero),
    Input(FALSE, "", TRUE, 0, FALSE, Zero, Zero),
    Input(FALSE, "", TRUE, 6, FALSE, Zero, Zero),
    Input(TRUE, "", FALSE, 0, FALSE, Zero, Zero) }

\* values typed into the prior field, in percent
PriorEdits == {Zero, R(30, 1), Hundred}

\* 10 ** lr_log for a whole slider position
RECURSIVE Pow10(_)
Pow10(k) == IF k = 0 THEN One
            ELSE IF k > 0 THEN RMul(R(10, 1), Pow10(k - 1))
            ELSE RDiv(Pow10(k + 1), R(10, 1))

\* files a user uploads that the program did not write itself
Uploads ==
  { File(TRUE, << Cell("bevis", "Vittne", R(7, 10), R(2, 10), R(3, 10)),
                  Cell("bevis", "DNA", R(95, 100), R(1, 100), R(3, 10)),
                  Cell("motbevis", "Alibi", R(3, 10), R(6, 10), R(3, 10)) >>),
    File(TRUE, << Cell("bevis", "A", R(1, 2), R(1, 4), R(-1, 1)),
                  Cell("bevis", "B", R(7, 10), R(2, 10), R(-1, 1)) >>),
    File(TRUE, << Cell("bevis", "A", R(3, 2), R(2, 10), R(1, 10)) >>),
    File(TRUE, << Cell("motbevis", "Alibi", R(3, 10), R(6, 10), R(1, 2)) >>),
    File(TRUE, << Cell("annat", "Notering", R(1, 2), R(1, 2), R(1, 2)) >>),
    File(TRUE, <<>>) }

(***************************************************************************)
(* State.  One behaviour is a session: a first run of the script on a      *)
(* template, a manual scenario or an uploaded file, optionally a press of  *)
(* the save button, and a second run that uploads the saved file.          *)
(***************************************************************************)
VARIABLES
  pc,               \* where the script is: "source", "prior", "antal", "bevis",
                    \* "motbevis", "result", "done", "error"
  reload,           \* TRUE in the run that uploads the saved file
  uploaded_csv,     \* the uploaded file, or NoFile
  mallnamn,         \* the selectbox
  scenario_loaded,
  prior,
  bevisdata,
  motbevisdata,
  i,                \* index of the next row of the widget loop
  posterior,
  result_tab,
  tolkning,         \* interpret(posterior*100), "" before it is computed
  csv_bytes,        \* the file offered by the save button, or NoFile
  saved,            \* the scenario (prior, bevisdata, motbevisdata) last saved
  error,            \* the exception that stopped the script, "" if none
  edits,            \* widgets changed so far
  call,             \* function harness: the call [fn, args]
  ret               \* function harness: its result, once done

progVars == <<pc, reload, uploaded_csv, mallnamn, scenario_loaded, prior,
              bevisdata, motbevisdata, i, posterior, result_tab, tolkning,
              csv_bytes, saved, error, edits>>
vars == <<progVars, call, ret>>

Scenario(p, b, m) == [prior |-> p, bevisdata |-> b, motbevisdata |-> m]

NoCall == [fn |-> "none", arg |-> Zero]
NoRet == [done |-> FALSE]

Init ==
  /\ pc = "source"
  /\ reload = FALSE
  /\ uploaded_csv = NoFile
  /\ mallnamn = EGET
  /\ scenario_loaded = FALSE
  /\ prior = R(1, 10)
  /\ bevisdata = <<>>
  /\ motbevisdata = <<>>
  /\ i = 1
  /\ posterior = R(1, 10)
  /\ result_tab = <<>>
  /\ tolkning = ""
  /\ csv_bytes = NoFile
  /\ saved = Scenario(Zero, <<>>, <<>>)
  /\ error = ""
  /\ edits = 0
  /\ call = NoCall
  /\ ret = NoRet

Crash(exc) ==
  /\ pc' = "error"
  /\ error' = exc

\* lines 243-269: the selectbox, the uploader and the scenario they give
ChooseSource ==
  /\ pc = "source"
  /\ \E m \in Mallnamn, f \in (IF reload THEN {csv_bytes} ELSE Uploads \cup {NoFile}) :
       /\ f.none => ~reload
       /\ ~f.none => m = EGET
       /\ mallnamn' = m
       /\ uploaded_csv' = f
       /\ IF ~f.none
          THEN IF ~f.header
               THEN /\ Crash("EmptyDataError")
                    /\ UNCHANGED <<scenario_loaded, prior, bevisdata, motbevisdata>>
               ELSE IF f.rows = <<>>
               THEN /\ Crash("IndexError")
                    /\ UNCHANGED <<scenario_loaded, prior, bevisdata, motbevisdata>>
               ELSE /\ prior' = f.rows[1].prior
                    /\ bevisdata' = RowsOfTyp(f.rows, "bevis")
                    /\ motbevisdata' = RowsOfTyp(f.rows, "motbevis")
                    /\ scenario_loaded' = TRUE
                    /\ pc' = "prior"
                    /\ error' = error
          ELSE /\ prior' = R(1, 10)
               /\ bevisdata' = (IF m # EGET THEN MALLAR[m] ELSE <<>>)
               /\ motbevisdata' = (IF m # EGET THEN MOTBEVIS_MALLAR[m] ELSE <<>>)
               /\ scenario_loaded' = FALSE
               /\ pc' = "prior"
               /\ error' = error
  /\ UNCHANGED <<reload, i, posterior, result_tab, tolkning, csv_bytes, saved,
                 edits, call, ret>>

\* lines 271-276: the prior field, shown unless a file was loaded
PriorInput ==
  /\ pc = "prior"
  /\ IF ~scenario_loaded
     THEN \/ /\ prior' = RDiv(RMul(prior, Hundred), Hundred)
             /\ edits' = edits
          \/ /\ edits < MaxEdits
             /\ \E v \in PriorEdits : prior' = RDiv(v, Hundred)
             /\ edits' = edits + 1
     ELSE UNCHANGED <<prior, edits>>
  /\ pc' = "antal"
  /\ UNCHANGED <<reload, uploaded_csv, mallnamn, scenario_loaded, bevisdata,
                 motbevisdata, i, posterior, result_tab, tolkning, csv_bytes,
                 saved, error, call, ret>>

RECURSIVE DefaultRows(_, _, _, _, _)
\* [{"desc": f"{name} {k+1}", "pba": pba, "pbna": pbna} for k in range(from, to)]
DefaultRows(name, pba, pbna, from, to) ==
  IF from >= to THEN <<>>
  ELSE <<Row(name \o " " \o ToString(from + 1), pba, pbna)>>
       \o DefaultRows(name, pba, pbna, from + 1, to)

\* lines 282-289: a list brought to the length the count field gives
Resize(data, antal, name, pba, pbna) ==
  IF Len(data) < antal
  THEN data \o DefaultRows(name, pba, pbna, Len(data), antal)
  ELSE IF Len(data) > antal THEN SubSeq(data, 1, antal)
  ELSE data

\* lines 278-289: the two count fields, shown for a manual scenario
AntalInput ==
  /\ pc = "antal"
  /\ IF mallnamn = EGET /\ ~scenario_loaded
     THEN \E antal_bevis \in 1..MaxBevis, antal_motbevis \in 0..MaxMotbevis :
            /\ bevisdata' = Resize(bevisdata, antal_bevis, "Bevis",
                                   R(7, 10), R(2, 10))
            /\ motbevisdata' = Resize(motbevisdata, antal_motbevis, "Motbevis",
                                      R(4, 10), R(7, 10))
     ELSE UNCHANGED <<bevisdata, motbevisdata>>
  /\ pc' = "bevis"
  /\ i' = 1
  /\ UNCHANGED <<reload, uploaded_csv, mallnamn, scenario_loaded, prior,
                 posterior, result_tab, tolkning, csv_bytes, saved, error,
                 edits, call, ret>>

\* st.number_input(min_value=0.0, max_value=100.0, value=v): a default
\* outside the limits raises StreamlitAPIException
PctDefault(p) == RMul(p, Hundred)
PctDefaultOk(p) == RLe(Zero, PctDefault(p)) /\ RLe(PctDefault(p), Hundred)

\* the description field of a row
DescWidget(row, in) == IF in.desc_edit THEN in.desc ELSE str_desc(row.desc)

\* lines 301-317: the row the scale gives
ScaleRow(desc, pair) == Row(desc, pair[1], pair[2])

\* lines 321-324: the row the percent fields give
PctRow(desc, pba, pbna) == Row(desc, clamp_prob(pba), clamp_prob(pbna))

\* lines 295-324 (329-356): the widgets of one row and the row they give
RowWidgets(row, in) ==
  IF in.use_scale
  THEN ScaleRow(DescWidget(row, in), lr_to_prob_pair(Pow10(in.lr_log)))
  ELSE PctRow(DescWidget(row, in),
              RDiv(IF in.pct_edit THEN in.pba_pct ELSE PctDefault(row.pba),
                   Hundred),
              RDiv(IF in.pct_edit THEN in.pbna_pct ELSE PctDefault(row.pbna),
                   Hundred))

\* the percent fields of a row are shown and one of their defaults is refused
RowRefused(row, in) ==
  ~in.use_scale /\ ~(PctDefaultOk(row.pba) /\ PctDefaultOk(row.pbna))

\* the changes the user may still make to a row: none once MaxEdits widgets
\* were changed, and none in the run that uploads the saved file
EditsLeft == IF edits < MaxEdits /\ ~reload THEN RowEdits ELSE {}

\* lines 294-324: one pass of the evidence widget loop
BevisInput ==
  /\ pc = "bevis"
  /\ i <= Len(bevisdata)
  /\ \E in \in {NoEdit} \cup EditsLeft :
       /\ edits' = (IF in = NoEdit THEN edits ELSE edits + 1)
       /\ IF RowRefused(bevisdata[i], in)
          THEN /\ Crash("StreamlitAPIException")
               /\ UNCHANGED <<bevisdata, i>>
          ELSE /\ bevisdata' = [bevisdata EXCEPT ![i] = RowWidgets(@, in)]
               /\ i' = i + 1
               /\ UNCHANGED <<pc, error>>
  /\ UNCHANGED <<reload, uploaded_csv, mallnamn, scenario_loaded, prior,
                 motbevisdata, posterior, result_tab, tolkning, csv_bytes,
                 saved, call, ret>>

BevisDone ==
  /\ pc = "bevis"
  /\ i > Len(bevisdata)
  /\ pc' = "motbevis"
  /\ i' = 1
  /\ UNCHANGED <<reload, uploaded_csv, mallnamn, scenario_loaded, prior,
                 bevisdata, motbevisdata, posterior, result_tab, tolkning,
                 csv_bytes, saved, error, edits, call, ret>>

\* lines 329-356: one pass of the counter-evidence widget loop
MotbevisInput ==
  /\ pc = "motbevis"
  /\ i <= Len(motbevisdata)
  /\ \E in \in {NoEdit} \cup EditsLeft :
       /\ edits' = (IF in = NoEdit THEN edits ELSE edits + 1)
       /\ IF RowRefused(motbevisdata[i], in)
          THEN /\ Crash("StreamlitAPIException")
               /\ UNCHANGED <<motbevisdata, i>>
          ELSE /\ motbevisdata' = [motbevisdata EXCEPT ![i] = RowWidgets(@, in)]
               /\ i' = i + 1
               /\ UNCHANGED <<pc, error>>
  /\ UNCHANGED <<reload, uploaded_csv, mallnamn, scenario_loaded, prior,
                 bevisdata, posterior, result_tab, tolkning, csv_bytes,
                 saved, call, ret>>

MotbevisDone ==
  /\ pc = "motbevis"
  /\ i > Len(motbevisdata)
  /\ pc' = "result"
  /\ UNCHANGED <<reload, uploaded_csv, mallnamn, scenario_loaded, prior,
                 bevisdata, motbevisdata, i, posterior, result_tab, tolkning,
                 csv_bytes, saved, error, edits, call, ret>>

\* lines 358-405: the update loop and the interpretation of its result
Result ==
  /\ pc = "result"
  /\ result_tab' = UpdateLoop(prior, bevisdata, motbevisdata)
  /\ posterior' = LastPosterior(prior, result_tab')
  /\ tolkning' = interpret(RMul(posterior', Hundred))
  /\ pc' = "done"
  /\ UNCHANGED <<reload, uploaded_csv, mallnamn, scenario_loaded, prior,
                 bevisdata, motbevisdata, i, csv_bytes, saved, error, edits,
                 call, ret>>

\* lines 454-470: the save button
SaveScenario ==
  /\ pc = "done"
  /\ ~reload
  /\ csv_bytes.none
  /\ LET bevis_rows == CellsOf(bevisdata, "bevis", prior)
         motbevis_rows == CellsOf(motbevisdata, "motbevis", prior)
     IN csv_bytes' = to_csv(bevis_rows \o motbevis_rows)
  /\ saved' = Scenario(prior, bevisdata, motbevisdata)
  /\ UNCHANGED <<pc, reload, uploaded_csv, mallnamn, scenario_loaded, prior,
                 bevisdata, motbevisdata, i, posterior, result_tab, tolkning,
                 error, edits, call, ret>>

\* a new run of the script in which the saved file is uploaded
Reload ==
  /\ pc = "done"
  /\ ~reload
  /\ ~csv_bytes.none
  /\ reload' = TRUE
  /\ pc' = "source"
  /\ uploaded_csv' = NoFile
  /\ mallnamn' = EGET
  /\ scenario_loaded' = FALSE
  /\ prior' = R(1, 10)
  /\ bevisdata' = <<>>
  /\ motbevisdata' = <<>>
  /\ i' = 1
  /\ posterior' = R(1, 10)
  /\ result_tab' = <<>>
  /\ tolkning' = ""
  /\ UNCHANGED <<csv_bytes, saved, error, edits, call, ret>>

Next ==
  \/ ChooseSource
  \/ PriorInput
  \/ AntalInput
  \/ BevisInput
  \/ BevisDone
  \/ MotbevisInput
  \/ MotbevisDone
  \/ Result
  \/ SaveScenario
  \/ Reload

Spec == Init /\ [][Next]_vars

(***************************************************************************)
(* The pure functions on their own: Init draws a function and its          *)
(* argument, the action applies the function.                              *)
(***************************************************************************)
\* arguments of clamp_prob: below, on, inside and above the safe interval
ClampInputs ==
  { R(-3, 1), R(-1, 1000000000), Zero, R(5, 1000000000), EPS,
    R(2, 100000000), R(1, 3), R(1, 2), R(99999998, 100000000),
    ONE_MINUS_EPS, R(999999995, 1000000000), One, R(2, 1), LR_MAX }

\* likelihood ratios inside [1e-6, 1e6]
LrInRange ==
  { LR_MIN, R(2, 1000000), R(1, 1000), R(5, 1000), R(1, 100), R(1, 50),
    R(1, 10), R(1, 3), R(33, 100), R(1, 2), R(99, 100), One, R(2, 1),
    R(3, 1), R(100, 33), R(10, 1), R(30, 1), R(50, 1), Hundred, R(200, 1),
    R(1000, 1), R(999999, 1), LR_MAX }

\* likelihood ratios outside [1e-6, 1e6]
LrOutOfRange == { R(-1, 1), Zero, R(1, 10000000), R(10000000, 1) }

Calls ==
  [fn : {"clamp_prob"}, arg : ClampInputs]
  \cup [fn : {"lr_to_prob_pair"}, arg : LrInRange \cup LrOutOfRange]
  \cup [fn : {"lr_category"}, arg : LrInRange]

InitFn ==
  /\ pc = "source"
  /\ reload = FALSE
  /\ uploaded_csv = NoFile
  /\ mallnamn = EGET
  /\ scenario_loaded = FALSE
  /\ prior = R(1, 10)
  /\ bevisdata = <<>>
  /\ motbevisdata = <<>>
  /\ i = 1
  /\ posterior = R(1, 10)
  /\ result_tab = <<>>
  /\ tolkning = ""
  /\ csv_bytes = NoFile
  /\ saved = Scenario(Zero, <<>>, <<>>)
  /\ error = ""
  /\ edits = 0
  /\ call \in Calls
  /\ ret = NoRet

\* clamp_prob(p), and clamp_prob applied to its result
CallClampProb ==
  /\ call.fn = "clamp_prob"
  /\ ~ret.done
  /\ ret' = [done |-> TRUE, out |-> clamp_prob(call.arg),
             again |-> clamp_prob(clamp_prob(call.arg))]
  /\ UNCHANGED <<progVars, call>>

CallLrToProbPair ==
  /\ call.fn = "lr_to_prob_pair"
  /\ ~ret.done
  /\ ret' = [done |-> TRUE, pair |-> lr_to_prob_pair(call.arg)]
  /\ UNCHANGED <<progVars, call>>

\* lr_category(lr) and lr_category(1/lr)
CallLrCategory ==
  /\ call.fn = "lr_category"
  /\ ~ret.done
  /\ ret' = [done |-> TRUE, cat |-> lr_category(call.arg),
             inv |-> lr_category(RDiv(One, call.arg))]
  /\ UNCHANGED <<progVars, call>>

NextFn ==
  \/ CallClampProb
  \/ CallLrToProbPair
  \/ CallLrCategory

SpecFn == InitFn /\ [][NextFn]_vars

(***************************************************************************)
(* Properties.                                                             *)
(***************************************************************************)
InSafeInterval(p) == RLe(EPS, p) /\ RLe(p, ONE_MINUS_EPS)

InLrRange(lr) == RLe(LR_MIN, lr) /\ RLe(lr, LR_MAX)

\* C1: for every lr in [1e-6, 1e6], lr_to_prob_pair(lr) = (pba, pbna) has
\* pba / pbna = lr, the final clamp_prob calls change neither value, and both
\* values lie in [1e-8, 1 - 1e-8].
C1_RatioAndInterval ==
  (call.fn = "lr_to_prob_pair" /\ ret.done /\ InLrRange(call.arg)) =>
     /\ REq(RDiv(ret.pair[1], ret.pair[2]), call.arg)
     /\ REq(ret.pair[1], lr_to_prob_raw(call.arg)[1])
     /\ REq(ret.pair[2], lr_to_prob_raw(call.arg)[2])
     /\ InSafeInterval(ret.pair[1])
     /\ InSafeInterval(ret.pair[2])

\* C1 witness: the function was applied to the two ends of the range and to
\* ratios on both sides of 1.
C1_Witness ==
  /\ call.fn = "lr_to_prob_pair"
  /\ ret.done
  /\ REq(call.arg, LR_MAX)
  /\ RLt(ret.pair[2], ret.pair[1])

Mirror(cat) ==
  CASE cat = "Limited (weak) support for guilt" -> "Limited (weak) support for innocence"
    [] cat = "Moderate support for guilt" -> "Moderate support for innocence"
    [] cat = "Strong support for guilt" -> "Strong support for innocence"
    [] cat = "Very strong support for guilt" -> "Very strong support for innocence"
    [] cat = "Extremely strong support for guilt" -> "Extremely strong support for innocence"
    [] cat = "Limited (weak) support for innocence" -> "Limited (weak) support for guilt"
    [] cat = "Moderate support for innocence" -> "Moderate support for guilt"
    [] cat = "Strong support for innocence" -> "Strong support for guilt"
    [] cat = "Very strong support for innocence" -> "Very strong support for guilt"
    [] cat = "Extremely strong support for innocence" -> "Extremely strong support for guilt"
    [] OTHER -> "Neutral"

\* C4: the category table is symmetric around lr = 1: for every lr in
\* [1e-6, 1e6], lr_category(1/lr) is the category of the same strength on the
\* other side as lr_category(lr), and lr_category(1) is "Neutral".
C4_Symmetric ==
  (call.fn = "lr_category" /\ ret.done) =>
     /\ ret.inv = Mirror(ret.cat)
     /\ REq(call.arg, One) <=> ret.cat = "Neutral"

\* C6: clamp_prob(p) lies in [1e-8, 1 - 1e-8] for every p, is p when p lies
\* in that interval, and clamping its result again changes nothing.
C6_Clamp ==
  (call.fn = "clamp_prob" /\ ret.done) =>
     /\ InSafeInterval(ret.out)
     /\ InSafeInterval(call.arg) => REq(ret.out, call.arg)
     /\ REq(ret.again, ret.out)

\* C6 witness: an argument below the interval was raised to 1e-8.
C6_Witness ==
  /\ call.fn = "clamp_prob"
  /\ ret.done
  /\ RLt(call.arg, EPS)
  /\ REq(ret.out, EPS)

RowSafe(row) == InSafeInterval(row.pba) /\ InSafeInterval(row.pbna)

Interior(p) == RLt(Zero, p) /\ RLt(p, One)

\* the denominator of the bayes_step call a row of result_tab records
RowDenominator(row) ==
  bayes_denominator(RMul(row.pba, row.old_post), row.old_post, row.pbna)

\* a row of result_tab moved the posterior in the direction of its evidence
RowFollowsEvidence(row) ==
  /\ RLt(row.pbna, row.pba) => RLt(row.old_post, row.posterior)
  /\ RLt(row.pba, row.pbna) => RLt(row.posterior, row.old_post)
  /\ REq(row.pba, row.pbna) => REq(row.posterior, row.old_post)

\* C2, as claimed: every bayes_step call the program makes moves the
\* posterior strictly in the direction of the evidence (up when pba > pbna,
\* down when pba < pbna) and leaves it unchanged when pba = pbna.
C2_AnyPrior ==
  \A k \in DOMAIN result_tab : RowFollowsEvidence(result_tab[k])

\* C2, amended: a call with a prior strictly between 0 and 1 moves the
\* posterior strictly in the direction of the evidence; a call with
\* pba = pbna returns the prior, whatever the prior; a call with prior 0 or 1
\* returns the prior, whatever the evidence.
C2_InteriorPrior ==
  \A k \in DOMAIN result_tab :
     /\ Interior(result_tab[k].old_post) => RowFollowsEvidence(result_tab[k])
     /\ REq(result_tab[k].pba, result_tab[k].pbna)
          => REq(result_tab[k].posterior, result_tab[k].old_post)
     /\ (RIsZero(result_tab[k].old_post) \/ REq(result_tab[k].old_post, One))
          => REq(result_tab[k].posterior, result_tab[k].old_post)

\* C2 witness: a finished run with a step up and a step down from priors
\* strictly between 0 and 1.
C2_Witness ==
  /\ pc = "done"
  /\ \E k \in DOMAIN result_tab :
       /\ Interior(result_tab[k].old_post)
       /\ RLt(result_tab[k].pbna, result_tab[k].pba)
       /\ RLt(result_tab[k].old_post, result_tab[k].posterior)
  /\ \E k \in DOMAIN result_tab :
       /\ Interior(result_tab[k].old_post)
       /\ RLt(result_tab[k].pba, result_tab[k].pbna)
       /\ RLt(result_tab[k].posterior, result_tab[k].old_post)

RECURSIVE Orderings(_, _)
\* the sequences that list each index of the set once, as rows of data
Orderings(data, set) ==
  IF set = {} THEN {<<>>}
  ELSE UNION { { <<data[k]>> \o rest : rest \in Orderings(data, set \ {k}) } :
               k \in set }

\* the final posterior when the combined sequence is processed in the order
\* all, its first n rows as evidence and the rest as counter-evidence
FinalOf(p, all, n) ==
  LastPosterior(p, UpdateLoop(p, SubSeq(all, 1, n), SubSeq(all, n + 1, Len(all))))

\* C3: for a fixed prior and a fixed multiset of evidence items the final
\* posterior of the update loop is the same for every ordering of the
\* combined evidence + counter-evidence sequence.
C3_OrderInvariant ==
  pc = "done" =>
    \A all \in Orderings(bevisdata \o motbevisdata,
                         1..(Len(bevisdata) + Len(motbevisdata))) :
       REq(FinalOf(prior, all, Len(bevisdata)), posterior)

SameRows(a, b) ==
  /\ Len(a) = Len(b)
  /\ \A k \in DOMAIN a :
       /\ a[k].desc = b[k].desc
       /\ REq(a[k].pba, b[k].pba)
       /\ REq(a[k].pbna, b[k].pbna)

\* C5: saving a scenario and loading the saved file gives an equal scenario:
\* the load succeeds and the prior, the evidence list and the
\* counter-evidence list are those that were saved, in their order.
C5_RoundTrip ==
  (reload /\ pc # "source") =>
     /\ error = ""
     /\ REq(prior, saved.prior)
     /\ SameRows(bevisdata, saved.bevisdata)
     /\ SameRows(motbevisdata, saved.motbevisdata)

\* C7: with prior 0.10, the single evidence item (0.95, 0.05) and no
\* counter-evidence the final posterior is 0.095 / 0.14 = 19/28 (0.6786 to
\* four decimals) and its interpretation is the ">= 60" category
\* "Huvudsakligen styrkt", not the ">= 50" category.
C7_EndToEnd ==
  ( /\ pc = "done"
    /\ REq(prior, R(1, 10))
    /\ Len(bevisdata) = 1
    /\ motbevisdata = <<>>
    /\ REq(bevisdata[1].pba, R(95, 100))
    /\ REq(bevisdata[1].pbna, R(5, 100)) ) =>
     /\ REq(posterior, R(19, 28))
     /\ RLe(R(67855, 100000), posterior) /\ RLt(posterior, R(67865, 100000))
     /\ tolkning = "Huvudsakligen styrkt"
     /\ tolkning # "Bevisövervikt"

\* C7 witness: the run of that scenario has finished.
C7_Witness ==
  /\ pc = "done"
  /\ ~reload
  /\ REq(prior, R(1, 10))
  /\ Len(bevisdata) = 1
  /\ motbevisdata = <<>>
  /\ REq(bevisdata[1].pba, R(95, 100))
  /\ REq(bevisdata[1].pbna, R(5, 100))
  /\ tolkning = "Huvudsakligen styrkt"

\* the item a row of result_tab stands for
ItemOf(k) ==
  IF k <= Len(bevisdata) THEN bevisdata[k]
  ELSE motbevisdata[k - Len(bevisdata)]

LabelOf(k) ==
  IF k <= Len(bevisdata) THEN bevisdata[k].desc
  ELSE "Motbevis: " \o motbevisdata[k - Len(bevisdata)].desc

\* C8: the update loop gives one step per item, the evidence items first and
\* then the counter-evidence items, each in input order; the first step
\* starts from the prior, every later step from the result of the step
\* before it, the final posterior is the result of the last step, and
\* without items it is the prior.
C8_StepChain ==
  pc = "done" =>
     /\ Len(result_tab) = Len(bevisdata) + Len(motbevisdata)
     /\ \A k \in DOMAIN result_tab :
          /\ result_tab[k].Bevis = LabelOf(k)
          /\ REq(result_tab[k].pba, ItemOf(k).pba)
          /\ REq(result_tab[k].pbna, ItemOf(k).pbna)
          /\ REq(result_tab[k].old_post,
                 IF k = 1 THEN prior ELSE result_tab[k - 1].posterior)
     /\ result_tab # <<>> =>
          REq(posterior, result_tab[Len(result_tab)].posterior)
     /\ result_tab = <<>> => REq(posterior, prior)

\* C8 witness: a finished run with two evidence items and a counter-evidence
\* item whose steps all changed the posterior.
C8_Witness ==
  /\ pc = "done"
  /\ Len(bevisdata) >= 2
  /\ Len(motbevisdata) >= 1
  /\ \A k \in DOMAIN result_tab :
       ~REq(result_tab[k].old_post, result_tab[k].posterior)

\* C9: every bayes_step call of every run is made with conditional
\* probabilities in the safe interval and has a nonzero denominator, so the
\* fallback to 0 is never taken.
C9_NoZeroDenominator ==
  \A k \in DOMAIN result_tab :
     /\ RowSafe(result_tab[k])
     /\ ~RIsZero(RowDenominator(result_tab[k]))

\* C10: when the update loop runs every item has pba and pbna in
\* [1e-8, 1 - 1e-8], whatever the source and the input mode, and no input
\* outside the range is rejected: it is clamped.
C10_ClampedNeverRejected ==
  /\ pc \in {"result", "done"} =>
       /\ \A k \in DOMAIN bevisdata : RowSafe(bevisdata[k])
       /\ \A k \in DOMAIN motbevisdata : RowSafe(motbevisdata[k])
  /\ error # "StreamlitAPIException"

=============================================================================
